---- MODULE Spec2Model ----
(***************************************************************************)
(* Model of src/videogen/src/screens/VideoEditor.js: the playback clock    *)
(* (React state currentTime / isPlaying / jsonData, the two refs, the      *)
(* requestAnimationFrame chain armed by the playback effect) and the       *)
(* keyframe interpolator getCharacterProps.                                *)
(*                                                                         *)
(* Time is counted in whole seconds.  Keyframe fields and interpolated     *)
(* values are exact rationals [n, d] (the code uses IEEE doubles; the      *)
(* model abstracts rounding away, nothing else).                           *)
(*                                                                         *)
(* React semantics assumed (React 18 root): a setState call enqueues an    *)
(* update; the queue of a state variable is processed in order by the next *)
(* render; a click or an editor change renders before the handler's event  *)
(* ends; an update enqueued from a requestAnimationFrame callback is       *)
(* rendered by a later task (Render); effects whose dependencies changed   *)
(* run their cleanup and then their body as part of that render.           *)
(***************************************************************************)
EXTENDS Integers, Sequences, FiniteSets, TLC

VARIABLES
  mounted,            \* the component is mounted (FALSE after a render threw)
  jsonData,           \* useState, line 8: [duration, animations]
  currentTime,        \* useState, line 36: value of the last render
  isPlaying,          \* useState, line 37: value of the last render
  pendingTime,        \* updates enqueued by setCurrentTime, not yet rendered
  editorJson,         \* content.json held by the JSON editor: <<doc>> or <<>>
  animationFrameRef,  \* useRef, line 41: 0 models null
  lastUpdateTimeRef,  \* useRef, line 42
  rafPending,         \* frame callbacks requested and not yet run or cancelled
  now,                \* the wall clock read by Date.now()
  characterProps      \* line 184: result of getCharacterProps in the last render

vars == <<mounted, jsonData, currentTime, isPlaying, pendingTime, editorJson,
          animationFrameRef, lastUpdateTimeRef, rafPending, now, characterProps>>

----------------------------------------------------------------------------
(* Bounds *)
MaxNow == 3        \* the wall clock stops advancing here
MaxPending == 1    \* frame callbacks whose update is not yet rendered
MaxLen == 3        \* keyframes per list in the interpolator specification
MaxT == 3          \* keyframe times and query times in the interpolator specification

(* Program constants *)
DefaultDuration == 120
SkipStep == 10

----------------------------------------------------------------------------
(* Exact rational arithmetic standing for the JS number operations *)
Abs(i) == IF i < 0 THEN -i ELSE i

RECURSIVE Gcd(_, _)
Gcd(a, b) == IF b = 0 THEN a ELSE Gcd(b, a % b)

Norm(n, d) ==
  LET s == IF d < 0 THEN -1 ELSE 1
      g == Gcd(Abs(n), Abs(d))
  IN  [n |-> (s * n) \div g, d |-> (s * d) \div g]

R(i) == [n |-> i, d |-> 1]
RAdd(a, b) == Norm(a.n * b.d + b.n * a.d, a.d * b.d)
RSub(a, b) == Norm(a.n * b.d - b.n * a.d, a.d * b.d)
RMul(a, b) == Norm(a.n * b.n, a.d * b.d)

Min(a, b) == IF a < b THEN a ELSE b
Max(a, b) == IF a > b THEN a ELSE b

----------------------------------------------------------------------------
(* getCharacterProps, lines 121-166.  Indices are 1-based here, so the     *)
(* code's -1 ("not found") is 0 and animations[i] is anims[i + 1].         *)

Keyframe(t, x, y, s, r) == [time |-> t, x |-> x, y |-> y, scale |-> s, rotation |-> r]

\* lines 125-131: the last index whose time <= t, 0 when there is none
BeforeIndex(anims, t) ==
  LET S == {i \in 1..Len(anims) : anims[i].time <= t}
  IN  IF S = {} THEN 0 ELSE CHOOSE i \in S : \A j \in S : j <= i

\* lines 126, 132-134: the first index whose time >= t, 0 when there is none
AfterIndex(anims, t) ==
  LET S == {i \in 1..Len(anims) : anims[i].time >= t}
  IN  IF S = {} THEN 0 ELSE CHOOSE i \in S : \A j \in S : i <= j

PropsOf(k) == <<k.x, k.y, k.scale, k.rotation>>

\* lines 161-164
Lerp(b, a, factor) == RAdd(b, RMul(RSub(a, b), factor))

getCharacterProps(anims, t) ==
  LET bi0 == BeforeIndex(anims, t)
      ai0 == AfterIndex(anims, t)
      beforeIndex == IF bi0 = 0 THEN 1 ELSE bi0                \* line 138
      afterIndex  == IF ai0 = 0 THEN Len(anims) ELSE ai0       \* line 139
  IN  IF beforeIndex > Len(anims)
      THEN \* animations[0] is undefined: reading .time throws a TypeError
           [threw |-> TRUE, val |-> <<>>]
      ELSE LET before == anims[beforeIndex]
               after  == anims[afterIndex]
               timeDiff == after.time - before.time
               factor == IF timeDiff = 0 THEN R(0)
                         ELSE Norm(t - before.time, timeDiff)
           IN  IF before.time = t THEN [threw |-> FALSE, val |-> PropsOf(before)]
               ELSE IF beforeIndex = afterIndex
                    THEN [threw |-> FALSE, val |-> PropsOf(before)]
               ELSE [threw |-> FALSE,
                     val |-> <<Lerp(before.x, after.x, factor),
                               Lerp(before.y, after.y, factor),
                               Lerp(before.scale, after.scale, factor),
                               Lerp(before.rotation, after.rotation, factor)>>]

----------------------------------------------------------------------------
(* Documents *)
DefaultAnimations ==
  << Keyframe(0,  R(10), R(50), R(1),       R(0)),
     Keyframe(30, R(70), R(50), Norm(6, 5), R(0)),
     Keyframe(60, R(40), R(70), R(1),       R(45)),
     Keyframe(90, R(10), R(50), R(1),       R(0)) >>

DefaultDoc == [duration |-> DefaultDuration, animations |-> DefaultAnimations]

\* documents the user can produce in the editor
ShortDoc == [duration |-> 12, animations |-> DefaultAnimations]
ZeroDoc  == [duration |-> 0,  animations |-> DefaultAnimations]
EmptyDoc == [duration |-> DefaultDuration, animations |-> << >>]
Docs == {DefaultDoc, ShortDoc, ZeroDoc, EmptyDoc}

----------------------------------------------------------------------------
(* State updates.  setCurrentTime(fn) of line 102 enqueues an updater that *)
(* closes over deltaTime and over the jsonData of the render whose effect  *)
(* created updateAnimation; setCurrentTime(v) of lines 406, 422, 429       *)
(* enqueues a value.                                                       *)
Updater(delta, dur) == [kind |-> "updater", arg |-> delta, dur |-> dur]
Value(v) == [kind |-> "value", arg |-> v, dur |-> 0]

\* a wrap that keeps the remainder instead of resetting to 0
updateTimeModulo(prevTime, deltaTime, duration) ==
  LET newTime == prevTime + deltaTime
  IN  IF newTime >= duration
      THEN (IF duration > 0 THEN newTime % duration ELSE 0)
      ELSE newTime

\* lines 102-105
updateTime(prevTime, deltaTime, duration) ==
  LET newTime == prevTime + deltaTime
  IN  IF newTime >= duration THEN 0 ELSE newTime

RECURSIVE ApplyUpdates(_, _)
ApplyUpdates(state, queue) ==
  IF queue = << >> THEN state
  ELSE LET u == Head(queue)
       IN  ApplyUpdates(IF u.kind = "updater"
                        THEN updateTime(state, u.arg, u.dur)
                        ELSE u.arg,
                        Tail(queue))

\* requestAnimationFrame returns a handle no live callback or ref holds;
\* only the identity of a handle matters, so the least free one is taken
FreshId(pending, ref) ==
  LET used == {f.id : f \in pending} \cup {ref}
  IN  CHOOSE i \in 1..(Cardinality(used) + 1) :
        i \notin used /\ \A j \in 1..(i - 1) : j \in used

\* a cleanup that forgets to cancel the requested frame
CleanupNoCancel(pending, ref) == pending

\* lines 112-116: the cleanup returned by the playback effect
Cleanup(pending, ref) ==
  IF ref # 0 THEN {f \in pending : f.id # ref} ELSE pending

\* a dependency list without jsonData.project.duration
DepsChangedNoDuration(newPlaying, newJson) == newPlaying # isPlaying

\* line 118: the dependency list of the playback effect
DepsChanged(newPlaying, newJson) ==
  newPlaying # isPlaying \/ newJson.duration # jsonData.duration

(* The effect of lines 83-92 pushes jsonData back into the editor only when *)
(* the two differ; jsonData is only ever set from the editor's own content *)
(* (lines 61, 174), so that effect never changes editorJson.               *)
(*                                                                         *)
(* One render and commit: the queued updates are applied, the component    *)
(* body runs (getCharacterProps, line 184) and the playback effect of      *)
(* lines 95-118 is torn down and re-armed when a dependency changed.  A    *)
(* render that throws unmounts the component, which runs the cleanup.      *)
Flush(newPlaying, newJson, queue) ==
  LET newTime == ApplyUpdates(currentTime, queue)
      props == getCharacterProps(newJson.animations, newTime)
      cleaned == IF isPlaying THEN Cleanup(rafPending, animationFrameRef)
                 ELSE rafPending
      id == FreshId(cleaned, animationFrameRef)
  IN  /\ currentTime' = newTime
      /\ isPlaying' = newPlaying
      /\ jsonData' = newJson
      /\ pendingTime' = << >>
      /\ characterProps' = props
      /\ IF props.threw
         THEN /\ mounted' = FALSE
              /\ rafPending' = cleaned
              /\ UNCHANGED animationFrameRef
         ELSE /\ mounted' = TRUE
              /\ IF DepsChanged(newPlaying, newJson)
                 THEN IF newPlaying
                      THEN /\ rafPending' = cleaned \cup
                                 {[id |-> id, dur |-> newJson.duration]}
                           /\ animationFrameRef' = id
                      ELSE /\ rafPending' = cleaned
                           /\ UNCHANGED animationFrameRef
                 ELSE UNCHANGED <<rafPending, animationFrameRef>>

----------------------------------------------------------------------------
Init ==
  /\ mounted = TRUE
  /\ jsonData = DefaultDoc
  /\ currentTime = 0
  /\ isPlaying = FALSE
  /\ pendingTime = << >>
  /\ editorJson = <<DefaultDoc>>
  /\ animationFrameRef = 0
  /\ now = 0
  /\ lastUpdateTimeRef = 0
  /\ rafPending = {}
  /\ characterProps = getCharacterProps(DefaultAnimations, 0)

\* wall-clock time passes
Elapse ==
  /\ mounted
  /\ now < MaxNow
  /\ now' = now + 1
  /\ UNCHANGED <<mounted, jsonData, currentTime, isPlaying, pendingTime,
                 editorJson, animationFrameRef, lastUpdateTimeRef, rafPending,
                 characterProps>>

\* lines 97-108: the browser runs a requested frame callback
updateAnimation(f) ==
  /\ mounted
  /\ f \in rafPending
  /\ Len(pendingTime) < MaxPending
  /\ LET deltaTime == now - lastUpdateTimeRef
         rest == rafPending \ {f}
         id == FreshId(rest, animationFrameRef)
     IN  /\ lastUpdateTimeRef' = now
         /\ pendingTime' = Append(pendingTime, Updater(deltaTime, f.dur))
         /\ rafPending' = rest \cup {[id |-> id, dur |-> f.dur]}
         /\ animationFrameRef' = id
  /\ UNCHANGED <<mounted, jsonData, currentTime, isPlaying, editorJson, now,
                 characterProps>>

\* the render React schedules for the updates enqueued by frame callbacks
Render ==
  /\ mounted
  /\ pendingTime # << >>
  /\ Flush(isPlaying, jsonData, pendingTime)
  /\ UNCHANGED <<editorJson, lastUpdateTimeRef, now>>

\* line 416
TogglePlay ==
  /\ mounted
  /\ Flush(~isPlaying, jsonData, pendingTime)
  /\ UNCHANGED <<editorJson, lastUpdateTimeRef, now>>

\* line 406
SkipBack ==
  /\ mounted
  /\ Flush(isPlaying, jsonData,
           Append(pendingTime, Value(Max(0, currentTime - SkipStep))))
  /\ UNCHANGED <<editorJson, lastUpdateTimeRef, now>>

\* lines 428-432
SkipForward ==
  /\ mounted
  /\ Flush(isPlaying, jsonData,
           Append(pendingTime, Value(Min(jsonData.duration, currentTime + SkipStep))))
  /\ UNCHANGED <<editorJson, lastUpdateTimeRef, now>>

\* line 422
Reset ==
  /\ mounted
  /\ Flush(isPlaying, jsonData, Append(pendingTime, Value(0)))
  /\ UNCHANGED <<editorJson, lastUpdateTimeRef, now>>

\* lines 55-66: the editor reports new content; json is <<doc>> or << >>
onChange(json, contentErrors) ==
  /\ mounted
  /\ editorJson' = json
  /\ IF contentErrors = 0 /\ json # << >>
     THEN Flush(isPlaying, json[1], pendingTime)
     ELSE UNCHANGED <<mounted, jsonData, currentTime, isPlaying, pendingTime,
                      animationFrameRef, rafPending, characterProps>>
  /\ UNCHANGED <<lastUpdateTimeRef, now>>

\* lines 169-181
applyJsonChanges ==
  /\ mounted
  /\ editorJson # << >>
  /\ Flush(isPlaying, editorJson[1], pendingTime)
  /\ UNCHANGED <<editorJson, lastUpdateTimeRef, now>>

Edit == \E doc \in Docs, contentErrors \in {0, 1} : onChange(<<doc>>, contentErrors)

EditText == onChange(<< >>, 1)

Frame == \E f \in rafPending : updateAnimation(f)

Next ==
  \/ Elapse
  \/ Frame
  \/ Render
  \/ TogglePlay
  \/ SkipBack
  \/ SkipForward
  \/ Reset
  \/ Edit
  \/ EditText
  \/ applyJsonChanges

Spec == Init /\ [][Next]_vars

----------------------------------------------------------------------------
(* The interpolator on its own: any keyframe list, any query time *)
KeyframeValues ==
  { <<R(0), R(0), R(1), R(0)>>,
    <<R(10), R(50), R(2), R(45)>>,
    <<R(40), R(70), R(1), R(90)>> }

Keyframes == {Keyframe(t, v[1], v[2], v[3], v[4]) : t \in 0..MaxT, v \in KeyframeValues}

KeyframeLists == UNION {[1..n -> Keyframes] : n \in 0..MaxLen}

NotRendered == [threw |-> FALSE, val |-> << >>]

InitI ==
  /\ mounted = TRUE
  /\ jsonData \in {[duration |-> DefaultDuration, animations |-> l] : l \in KeyframeLists}
  /\ currentTime \in 0..MaxT
  /\ isPlaying = FALSE
  /\ pendingTime = << >>
  /\ editorJson = <<jsonData>>
  /\ animationFrameRef = 0
  /\ now = 0
  /\ lastUpdateTimeRef = 0
  /\ rafPending = {}
  /\ characterProps = NotRendered

\* line 184
Interpolate ==
  /\ characterProps = NotRendered
  /\ characterProps' = getCharacterProps(jsonData.animations, currentTime)
  /\ mounted' = ~characterProps'.threw
  /\ UNCHANGED <<jsonData, currentTime, isPlaying, pendingTime, editorJson,
                 animationFrameRef, lastUpdateTimeRef, rafPending, now>>

NextI == Interpolate

SpecI == InitI /\ [][NextI]_vars

----------------------------------------------------------------------------
(* Properties of the playback clock, checked under Spec *)

\* C1 (pause-freeze): whenever the clock is paused no frame callback and no
\* tick update is left pending, and a step taken while paused changes
\* currentTime only if it is one of the seek controls (-10s, +10s, Reset).
C1_PauseFreeze ==
  [][ ~isPlaying' =>
        /\ rafPending' = {}
        /\ pendingTime' = << >>
        /\ (~isPlaying =>
              (currentTime' = currentTime \/ SkipBack \/ SkipForward \/ Reset)) ]_vars

\* paused after ticks were delivered, the cancelled handle still in the ref,
\* and wall-clock time has passed since the last tick
C1_Witness ==
  /\ mounted /\ ~isPlaying
  /\ animationFrameRef # 0
  /\ currentTime % SkipStep # 0
  /\ now > lastUpdateTimeRef

\* C2 (play captures the wall clock): every step that starts playback leaves
\* lastUpdateTimeRef equal to the wall-clock instant of that step, so that
\* the first tick's delta is the time elapsed since play.
C2_PlayCaptures ==
  [][ (~isPlaying /\ isPlaying') => lastUpdateTimeRef' = now' ]_vars

\* the wrap as the claim states it
C3_Tick(c, delta, duration) == IF c + delta >= duration THEN 0 ELSE c + delta

RECURSIVE C3_Ticks(_, _, _)
C3_Ticks(c, queue, duration) ==
  IF queue = << >> THEN c
  ELSE C3_Ticks(C3_Tick(c, Head(queue).arg, duration), Tail(queue), duration)

\* C3 (wrap): the render of the pending ticks sets currentTime to 0 when
\* currentTime + delta reaches or passes the active duration and to
\* currentTime + delta otherwise, never to the remainder modulo duration.
C3_Wrap ==
  [][ Render => currentTime' = C3_Ticks(currentTime, pendingTime, jsonData.duration) ]_vars

\* a delivered tick that overshoots a positive duration is about to be rendered
C3_Witness ==
  /\ mounted /\ isPlaying
  /\ pendingTime # << >>
  /\ jsonData.duration > 0
  /\ currentTime < jsonData.duration
  /\ currentTime + pendingTime[1].arg > jsonData.duration

\* C4 (clamp): every -10s, +10s or Reset step leaves currentTime inside
\* [0, duration] of the active document (stated for the documents whose
\* duration is positive, so that a violation owes nothing to C5).
C4_Clamp ==
  [][ (jsonData.duration > 0 /\ (SkipBack \/ SkipForward \/ Reset)) =>
        (0 <= currentTime' /\ currentTime' <= jsonData'.duration) ]_vars

\* C5 (invalid duration): the duration in force is always > 0.
C5_DurationPositive == jsonData.duration > 0

\* C8 (empty keyframe list): with an empty keyframe list the interpolator
\* hands no property record to its caller and the component stays mounted,
\* so the clock remains operable.
C8_EmptyListError ==
  jsonData.animations = << >> => (mounted /\ characterProps.val = << >>)

Clamp(v, lo, hi) == Max(lo, Min(hi, v))

\* C9 (skip linearized with ticks): a skip issued while playing yields
\* clamp(c + delta, 0, duration), c being currentTime after every tick
\* delivered before the skip, pending ones included.
C9_SkipLinearized ==
  [][ isPlaying =>
        /\ (SkipBack => currentTime' =
              Clamp(ApplyUpdates(currentTime, pendingTime) - SkipStep, 0, jsonData.duration))
        /\ (SkipForward => currentTime' =
              Clamp(ApplyUpdates(currentTime, pendingTime) + SkipStep, 0, jsonData.duration)) ]_vars

\* C10 (single tick chain): while mounted exactly one frame callback is
\* pending when playing and none when paused; the pending callback is the
\* one the ref names and it wraps against the active duration.
C10_SingleChain ==
  mounted =>
    /\ Cardinality(rafPending) = (IF isPlaying THEN 1 ELSE 0)
    /\ \A f \in rafPending :
         f.id = animationFrameRef /\ f.dur = jsonData.duration

\* playing on a replaced duration after ticks re-armed the chain
C10_Witness ==
  /\ mounted /\ isPlaying
  /\ jsonData.duration = ShortDoc.duration
  /\ lastUpdateTimeRef > 0
  /\ Cardinality(rafPending) = 1

----------------------------------------------------------------------------
(* Properties of the interpolator, checked under SpecI *)

Rendered == characterProps # NotRendered /\ ~characterProps.threw

Times(anims) == {anims[i].time : i \in 1..Len(anims)}

\* the last keyframe in sequence order among those at time t
LastAt(anims, t) ==
  anims[CHOOSE i \in 1..Len(anims) :
          anims[i].time = t /\ \A j \in 1..Len(anims) : anims[j].time = t => j <= i]

\* the first keyframe in sequence order among those at time t
FirstAt(anims, t) ==
  anims[CHOOSE i \in 1..Len(anims) :
          anims[i].time = t /\ \A j \in 1..Len(anims) : anims[j].time = t => i <= j]

\* C6 (exact hit): a query at the time of some keyframe returns the
\* properties of the last keyframe in sequence order that has that time.
C6_ExactHit ==
  (Rendered /\ currentTime \in Times(jsonData.animations)) =>
    characterProps.val = PropsOf(LastAt(jsonData.animations, currentTime))

\* C7 (linearity): a query strictly between two neighbouring keyframe times
\* tb < ta returns, field by field, b + (a - b) * (q - tb) / (ta - tb), in
\* whatever order the list is given.
C7_Linearity ==
  Rendered =>
    \A tb, ta \in Times(jsonData.animations) :
      ( /\ tb < currentTime /\ currentTime < ta
        /\ \A t \in Times(jsonData.animations) : ~(tb < t /\ t < ta) ) =>
        LET b == PropsOf(LastAt(jsonData.animations, tb))
            a == PropsOf(FirstAt(jsonData.animations, ta))
            factor == Norm(currentTime - tb, ta - tb)
        IN  characterProps.val = [i \in 1..4 |-> Lerp(b[i], a[i], factor)]

====
